---- MODULE Spec2Model ----
(***************************************************************************)
(* A model of the jik core: the generic training loop Solver::Train        *)
(* (core/solver.h) and the layers LayerDropout (core/layer_dropout.h) and  *)
(* LayerEltwiseMult (core/layer_eltwise_mult.h).                           *)
(*                                                                         *)
(* Dtype values are modelled as integers (products and sums are exact).    *)
(* uint32_t values are modelled as naturals modulo UintMod, a reduced word *)
(* width that keeps the wrap-around of the code's unsigned arithmetic.     *)
(***************************************************************************)
EXTENDS Integers, Sequences, FiniteSets

(***************************************************************************)
(* Bounds of the model.                                                    *)
(***************************************************************************)
\* The values of num_step passed to Solver::Train: every value up to MaxSteps,
\* and the 10 steps of the specification's scenario.
MaxSteps == 5
NumSteps == (0..MaxSteps) \cup {10}
\* Number of Solver::Train calls made on one solver.
MaxCalls == 2
\* Modulus of the modelled unsigned words (uint32_t in the code).
UintMod == 256

\* Cadences the solver is constructed with (0 and a value no run reaches included).
Cadences == {0, 1, 3, 100}
\* Learning rates passed to Train and scales the solver is constructed with.
LearningRates == {3}
LrScales == {2}
\* The weight lists (one size per weight) of the models passed to Train.
ModelWeightLists == {<<2, 3>>}
\* The name of the model, one character per element.
ModelName == <<"n", "e", "t">>

\* A null Model pointer, and the one non-null model.
NullModel == "null"
TheModel == "model"

VARIABLES
    \* ---- Solver attributes (solver.h:54-62)
    weight_, weight_prev_, print_each_, test_each_, save_each_, lr_scale_each_,
    lr_scale_,
    \* ---- the frame of the running Solver::Train call (solver.h:108-164)
    model, num_step, learning_rate, print, test, save, lr, step, pc, result,
    \* ---- the Model collaborator: the sizes of its weights
    modelWeights,
    \* ---- observation: the calls made by the current Train call, in order,
    \* the contents of the weight lists when Train was entered with a null
    \* model, and the number of Train calls made so far
    events, entryWeights, calls

VARIABLES
    \* ---- LayerDropout attributes (layer_dropout.h:55-56), with the data and
    \* deriv buffers of its input in_[0], its output out_[0] and its mask
    drop_prob_, in_data, in_deriv, out_data, out_deriv, mask_data, mask_deriv,
    \* ---- observation: the last operation on the layer, the phase, branch and
    \* draws of the last Forward, the mask written by the most recent
    \* training-phase Forward (empty while there was none), and the number of
    \* operations so far
    lastOp, lastPhase, lastBranch, lastDraws, trainMask, ops

dropoutVars == <<drop_prob_, in_data, in_deriv, out_data, out_deriv, mask_data,
                 mask_deriv, lastOp, lastPhase, lastBranch, lastDraws, trainMask,
                 ops>>

VARIABLES
    \* ---- a second tensor Y, and a LayerEltwiseMult: its inputs in_ (each the
    \* tensor "X", the input of the dropout layer, or "Y"), the number of its
    \* outputs out_.size(), the data and deriv buffers of out_[0], and whether
    \* its constructor has not run ("none"), has returned ("ok"), or has ended
    \* the process ("terminated")
    y_data, y_deriv, e_in, e_outs, e_out_data, e_out_deriv, e_state,
    \* ---- observation: the phase of the last Forward of the LayerEltwiseMult,
    \* and how often the Backward of the LayerDropout and of the
    \* LayerEltwiseMult have run since the deriv of X was cleared (Stale once a
    \* mask or an output gradient changed after one of them ran)
    e_phase, runs

eltwiseVars == <<y_data, y_deriv, e_in, e_outs, e_out_data, e_out_deriv,
                 e_state, e_phase>>

solverVars == <<weight_, weight_prev_, print_each_, test_each_, save_each_,
                lr_scale_each_, lr_scale_, model, num_step, learning_rate,
                print, test, save, lr, step, pc, result, modelWeights, events,
                entryWeights, calls>>

vars == <<solverVars, dropoutVars, eltwiseVars, runs>>

(***************************************************************************)
(* Unsigned arithmetic.                                                    *)
(***************************************************************************)
\* ++x on an unsigned word.
Inc(x) == (x + 1) % UintMod
\* x - 1 on an unsigned word (0 - 1 wraps to the largest word).
Dec(x) == (x - 1) % UintMod

(***************************************************************************)
(* std::to_string and the checkpoint file name (solver.h:143-144).         *)
(***************************************************************************)
Digit(d) == CASE d = 0 -> "0" [] d = 1 -> "1" [] d = 2 -> "2" [] d = 3 -> "3"
              [] d = 4 -> "4" [] d = 5 -> "5" [] d = 6 -> "6" [] d = 7 -> "7"
              [] d = 8 -> "8" [] d = 9 -> "9"

RECURSIVE to_string(_)
to_string(n) == IF n < 10 THEN <<Digit(n)>>
               ELSE Append(to_string(n \div 10), Digit(n % 10))

\* A 0-based-numbered name: the slip the checkpoint naming could make.
FileNameZeroBased(s) == ModelName \o <<"_">> \o to_string(s) \o
                        <<".", "m", "o", "d", "e", "l">>

\* model->Name() + "_" + std::to_string(step + 1) + ".model"
FileName(s) == ModelName \o <<"_">> \o to_string(Inc(s)) \o
               <<".", "m", "o", "d", "e", "l">>

(***************************************************************************)
(* The events a Train call makes.                                          *)
(***************************************************************************)
Event(op, s, rate, file, ok) ==
    [op |-> op, step |-> s, lr |-> rate, file |-> file, ok |-> ok]

\* Report(level, ...): emits the message and returns to its caller.
Report(level, s, rate) == Event(level, s, rate, << >>, TRUE)

(***************************************************************************)
(* The firing conditions of the four periodic events (solver.h:130-151).   *)
(* Each takes the counter after its increment.                             *)
(***************************************************************************)
\* A condition that takes a cadence of 0 to switch the event off.
FiresUnlessZero(counter, each, s, n) ==
    (each > 0 /\ counter >= each) \/ (s = Dec(n))

\* Cadence only: a print/test/save condition that forgot the final step.
FiresOnCadenceOnly(counter, each, s, n) == counter >= each

\* (++counter >= each_) || (step == num_step - 1)
FiresOrFinal(counter, each, s, n) == (counter >= each) \/ (s = Dec(n))

\* A decay that also fires on the final step, like the other three events.
LrFiresOrFinal(counter, each, s, n) == (counter >= each) \/ (s = Dec(n))

\* ++lr >= lr_scale_each_
LrFires(counter, each, s, n) == counter >= each

\* A decay that assigns the scale instead of multiplying by it.
ScaledRateAssigned(rate, scale) == scale

\* learning_rate *= lr_scale_  (solver.h:154)
ScaledRate(rate, scale) == rate * scale

\* if (!model)
InvalidModelNever(m) == FALSE

InvalidModel(m) == m = NullModel

\* The loop condition step < num_step.
LoopRunsOneMore(s, n) == s <= n

LoopRuns(s, n) == s < n

\* Where Train goes after model->Save returned: a slip that ignores the result.
PcAfterSaveIgnored(ok) == "lr"

\* if (!model->Save(...)) return false;  (solver.h:145-147)
PcAfterSave(ok) == IF ok THEN "lr" ELSE "done"

\* weight_.clear(); weight_prev_.clear();  (solver.h:160-161)
WeightsCleared(w) == << >>

(***************************************************************************)
(* Solver::Solver (solver.h:77-84): the state after construction.          *)
(***************************************************************************)
InitSolver ==
    /\ weight_ = << >>
    /\ weight_prev_ = << >>
    /\ print_each_ \in Cadences
    /\ test_each_ \in Cadences
    /\ save_each_ \in Cadences
    /\ lr_scale_each_ \in Cadences
    /\ lr_scale_ \in LrScales
    /\ modelWeights \in ModelWeightLists
    /\ model = NullModel
    /\ num_step = 0
    /\ learning_rate = 0
    /\ print = 0
    /\ test = 0
    /\ save = 0
    /\ lr = 0
    /\ step = 0
    /\ pc = "idle"
    /\ result = FALSE
    /\ events = << >>
    /\ entryWeights = << << >>, << >> >>
    /\ calls = 0

\* What no statement of Train changes: the solver's configuration, the model's
\* weights, and the layers.
solverConfig == <<print_each_, test_each_, save_each_, lr_scale_each_, lr_scale_,
                  modelWeights, dropoutVars, eltwiseVars, runs>>

(***************************************************************************)
(* Solver::Train, entered with a null model (solver.h:109-112).            *)
(***************************************************************************)
TrainInvalidModel(m, n, rate) ==
    /\ pc \in {"idle", "done"}
    /\ calls < MaxCalls
    /\ InvalidModel(m)
    /\ calls' = calls + 1
    /\ model' = m
    /\ num_step' = n
    /\ learning_rate' = rate
    /\ entryWeights' = <<weight_, weight_prev_>>
    /\ events' = <<Report("kError", 0, rate)>>
    /\ result' = FALSE
    /\ pc' = "done"
    \* the counters and step are not declared yet on this path
    /\ print' = 0
    /\ test' = 0
    /\ save' = 0
    /\ lr' = 0
    /\ step' = 0
    /\ UNCHANGED <<weight_, weight_prev_>>
    /\ UNCHANGED solverConfig

(***************************************************************************)
(* Solver::Train, entry with a model: the snapshot setup and the counters  *)
(* (solver.h:114-125).  The check above keeps a null model out of here; a   *)
(* null model that got here would have no weights to give.                 *)
(***************************************************************************)
TrainSetup(m, n, rate) ==
    /\ pc \in {"idle", "done"}
    /\ calls < MaxCalls
    /\ ~InvalidModel(m)
    /\ calls' = calls + 1
    /\ model' = m
    /\ num_step' = n
    /\ learning_rate' = rate
    /\ entryWeights' = << << >>, << >> >>
    /\ LET got == IF m = NullModel THEN << >> ELSE modelWeights
       IN /\ weight_' = got
          /\ weight_prev_' = [i \in 1..Len(got) |-> got[i]]
    /\ events' = <<Event("GetWeight", 0, rate, << >>, TRUE)>>
    /\ print' = 0
    /\ test' = 0
    /\ save' = 0
    /\ lr' = 0
    /\ step' = 0
    /\ result' = FALSE
    /\ pc' = "loop"
    /\ UNCHANGED solverConfig

(***************************************************************************)
(* One loop iteration, statement by statement (solver.h:126-157).          *)
(***************************************************************************)
\* Dtype loss = model->Train();
ModelTrain ==
    /\ pc = "loop"
    /\ LoopRuns(step, num_step)
    /\ events' = Append(events, Event("Train", step, learning_rate, << >>, TRUE))
    /\ pc' = "learn"
    /\ UNCHANGED <<weight_, weight_prev_, model, num_step, learning_rate, print,
                   test, save, lr, step, result, entryWeights, calls>>
    /\ UNCHANGED solverConfig

\* Learn(model, learning_rate);
Learn ==
    /\ pc = "learn"
    /\ events' = Append(events, Event("Learn", step, learning_rate, << >>, TRUE))
    /\ pc' = "print"
    /\ UNCHANGED <<weight_, weight_prev_, model, num_step, learning_rate, print,
                   test, save, lr, step, result, entryWeights, calls>>
    /\ UNCHANGED solverConfig

\* if ((++print >= print_each_) || (step == num_step - 1)) { Report; print = 0; }
PrintReport ==
    /\ pc = "print"
    /\ IF FiresOrFinal(Inc(print), print_each_, step, num_step)
       THEN /\ events' = Append(events, Report("kInfoStep", step, learning_rate))
            /\ print' = 0
       ELSE /\ events' = events
            /\ print' = Inc(print)
    /\ pc' = "test"
    /\ UNCHANGED <<weight_, weight_prev_, model, num_step, learning_rate,
                   test, save, lr, step, result, entryWeights, calls>>
    /\ UNCHANGED solverConfig

\* if ((++test >= test_each_) || (step == num_step - 1)) { Report(model->Test()); test = 0; }
TestReport ==
    /\ pc = "test"
    /\ IF FiresOrFinal(Inc(test), test_each_, step, num_step)
       THEN /\ events' = Append(events, Event("Test", step, learning_rate, << >>, TRUE))
            /\ test' = 0
       ELSE /\ events' = events
            /\ test' = Inc(test)
    /\ pc' = "save"
    /\ UNCHANGED <<weight_, weight_prev_, model, num_step, learning_rate,
                   print, save, lr, step, result, entryWeights, calls>>
    /\ UNCHANGED solverConfig

\* if ((++save >= save_each_) || (step == num_step - 1)) {
\*   if (!model->Save(file_name)) return false;  save = 0; }
SaveModel(ok) ==
    /\ pc = "save"
    /\ IF FiresOrFinal(Inc(save), save_each_, step, num_step)
       THEN /\ events' = Append(events,
                                Event("Save", step, learning_rate, FileName(step), ok))
            /\ IF ok
               THEN /\ save' = 0
                    /\ pc' = PcAfterSave(ok)
                    /\ UNCHANGED <<weight_, weight_prev_, result>>
               ELSE /\ save' = Inc(save)
                    /\ pc' = PcAfterSave(ok)
                    /\ result' = FALSE
                    /\ UNCHANGED <<weight_, weight_prev_>>
       ELSE /\ ok
            /\ events' = events
            /\ save' = Inc(save)
            /\ pc' = "lr"
            /\ UNCHANGED <<weight_, weight_prev_, result>>
    /\ UNCHANGED <<model, num_step, learning_rate, print, test, lr, step,
                   entryWeights, calls>>
    /\ UNCHANGED solverConfig

\* if (++lr >= lr_scale_each_) { Report; learning_rate *= lr_scale_; lr = 0; }
\* followed by the loop's ++step.
LrScale ==
    /\ pc = "lr"
    /\ IF LrFires(Inc(lr), lr_scale_each_, step, num_step)
       THEN /\ events' = Append(events, Event("Decay", step, learning_rate, << >>, TRUE))
            /\ learning_rate' = ScaledRate(learning_rate, lr_scale_)
            /\ lr' = 0
       ELSE /\ events' = events
            /\ learning_rate' = learning_rate
            /\ lr' = Inc(lr)
    /\ step' = Inc(step)
    /\ pc' = "loop"
    /\ UNCHANGED <<weight_, weight_prev_, model, num_step, print, test, save,
                   result, entryWeights, calls>>
    /\ UNCHANGED solverConfig

\* The loop has ended: clear the weights and return true (solver.h:159-163).
TrainReturn ==
    /\ pc = "loop"
    /\ ~LoopRuns(step, num_step)
    /\ weight_' = WeightsCleared(weight_)
    /\ weight_prev_' = WeightsCleared(weight_prev_)
    /\ result' = TRUE
    /\ pc' = "done"
    /\ UNCHANGED <<model, num_step, learning_rate, print, test, save, lr, step,
                   events, entryWeights, calls>>
    /\ UNCHANGED solverConfig

(***************************************************************************)
(* LayerDropout (layer_dropout.h).                                         *)
(*                                                                         *)
(* Probabilities and draws are Dtype values of [0, 1], kept as multiples   *)
(* of 2^-24 (the spacing of float below 1): One is 1.0 and Epsilon is      *)
(* std::numeric_limits<float>::epsilon() = 2^-23.                          *)
(***************************************************************************)
One == 16777216
Epsilon == 2
Half == One \div 2
ThreeQuarters == 3 * (One \div 4)

\* The drop probabilities the layer is constructed with: 0, a positive value
\* below epsilon, 1/2, 3/4, a value above 1 - epsilon, and 1.
DropProbs == {0, 1, Half, ThreeQuarters, One - 1, One}
\* The values dist(gen) returns, in [0, 1).
DrawValues == {0, Half, ThreeQuarters}
\* The data of the input tensor.
InputVectors == {<<1, 2, 3, 4>>, <<-2, 5>>}
\* The gradients a consumer of the output adds into out_[0]->deriv.
OutGradients(n) == {[i \in 1..n |-> 1], [i \in 1..n |-> i - 2]}
\* The realizations of the draws of one Forward on n elements: every choice
\* for the first two elements, repeated along the tensor.
DrawSequences(n) ==
    {d \in [1..n -> DrawValues] : \A i \in 3..n : d[i] = d[i - 2]}
\* Operations on the layer and its tensors in one run.
MaxOps == 5

PHASE_TRAIN == "PHASE_TRAIN"
Phases == {"PHASE_TRAIN", "PHASE_TEST"}

\* Mat::Zero and Mat::Set on a data buffer.
MatZero(v) == [i \in 1..Len(v) |-> 0]
MatSet(v, x) == [i \in 1..Len(v) |-> x]

\* Counting the Backward calls on X since its deriv was cleared.
Cleared == <<0, 0>>
Stale == <<-1, -1>>
\* A mask or an output gradient is rewritten.
Touched(r) == IF r = Cleared THEN r ELSE Stale
\* The Backward of consumer j of X has run.
Ran(r, j) == IF r = Stale THEN r ELSE [r EXCEPT ![j] = @ + 1]

\* LayerDropout::LayerDropout (layer_dropout.h:68-85) on an input tensor with
\* the data x: the mask and the output are created zeroed, same size.
ConstructDropout(p, x) ==
    /\ drop_prob_ = p
    /\ in_data = x
    /\ in_deriv = MatZero(x)
    /\ mask_data = MatZero(x)
    /\ mask_deriv = MatZero(x)
    /\ out_data = MatZero(x)
    /\ out_deriv = MatZero(x)
    /\ lastOp = "Construct"
    /\ lastPhase = "none"
    /\ lastBranch = "none"
    /\ lastDraws = << >>
    /\ trainMask = << >>
    /\ ops = 0

\* A Forward that applies dropout in every phase.
ForwardBranchAnyPhase(phase, p) ==
    IF p < Epsilon THEN "nodrop"
    ELSE IF p > One - Epsilon THEN "dropall"
    ELSE "random"

\* The branch Forward takes (layer_dropout.h:108, 115, 119-120, 124).
ForwardBranch(phase, p) ==
    IF phase # PHASE_TRAIN THEN "notrain"
    ELSE IF p < Epsilon THEN "nodrop"
    ELSE IF p > One - Epsilon THEN "dropall"
    ELSE "random"

\* scale = 1 / (1 - drop_prob_): exact for the probabilities of DropProbs.
Scale(p) == One \div (One - p)

\* A mask loop that also drops an element whose draw equals drop_prob_.
DrawMaskInclusive(p, draws) ==
    [i \in 1..Len(draws) |-> IF draws[i] <= p THEN 0 ELSE Scale(p)]

\* The mask loop (layer_dropout.h:133-139).
DrawMask(p, draws) ==
    [i \in 1..Len(draws) |-> IF draws[i] < p THEN 0 ELSE Scale(p)]

\* The output loop (layer_dropout.h:143-145).
MaskedInput(mask, x) == [i \in 1..Len(x) |-> mask[i] * x[i]]

\* A no-drop branch that leaves the mask alone.
NoDropMaskKept(mask) == mask

\* mask_->Set(static_cast<Dtype>(1))  (layer_dropout.h:118)
NoDropMask(mask) == MatSet(mask, 1)

\* A drop-all branch that leaves the output alone.
DropAllOutKept(out) == out

\* Parent::out_[0]->Zero()  (layer_dropout.h:122)
DropAllOut(out) == MatZero(out)

\* A Forward that clears the mask outside the training phase.
NoTrainMaskZeroed(mask) == MatZero(mask)

\* A Forward that sets the mask to 1 outside the training phase.
NoTrainMaskIdentity(mask) == MatSet(mask, 1)

\* Outside the training phase Forward returns without touching the mask
\* (layer_dropout.h:108-112).
NoTrainMask(mask) == mask

\* The mask and the output data after Forward, by branch.
ForwardMask(branch, p, mask, draws) ==
    CASE branch = "notrain" -> NoTrainMask(mask)
      [] branch = "nodrop" -> NoDropMask(mask)
      [] branch = "dropall" -> MatZero(mask)
      [] branch = "random" -> DrawMask(p, draws)

ForwardOut(branch, p, x, out, draws) ==
    CASE branch = "notrain" -> x
      [] branch = "nodrop" -> x
      [] branch = "dropall" -> DropAllOut(out)
      [] branch = "random" -> MaskedInput(DrawMask(p, draws), x)

\* LayerDropout::Forward (layer_dropout.h:107-147).
Forward(phase, draws) ==
    LET branch == ForwardBranch(phase, drop_prob_)
    IN /\ ops < MaxOps
       /\ ops' = ops + 1
       /\ (branch # "random") => draws = << >>
       /\ (branch = "random") => Len(draws) = Len(mask_data)
       /\ mask_data' = ForwardMask(branch, drop_prob_, mask_data, draws)
       /\ out_data' = ForwardOut(branch, drop_prob_, in_data, out_data, draws)
       /\ lastOp' = "Forward"
       /\ lastPhase' = phase
       /\ lastBranch' = branch
       /\ lastDraws' = draws
       /\ trainMask' = IF branch = "notrain" THEN trainMask ELSE mask_data'
       /\ runs' = IF mask_data' = mask_data THEN runs ELSE Touched(runs)
       /\ UNCHANGED <<drop_prob_, in_data, in_deriv, out_deriv, mask_deriv>>
       /\ UNCHANGED <<solverVars, eltwiseVars>>

\* A Backward that overwrites the input gradient.
BackwardInDerivOverwrite(deriv, mask, dv) ==
    [i \in 1..Len(dv) |-> mask[i] * dv[i]]

\* in_deriv_data[i] += mask_data[i] * dv  (layer_dropout.h:167)
BackwardInDeriv(deriv, mask, dv) ==
    [i \in 1..Len(dv) |-> deriv[i] + mask[i] * dv[i]]

\* mask_deriv_data[i] += in_data[i] * dv  (layer_dropout.h:168)
BackwardMaskDeriv(deriv, x, dv) ==
    [i \in 1..Len(dv) |-> deriv[i] + x[i] * dv[i]]

\* LayerDropout::Backward (layer_dropout.h:156-170).
Backward ==
    /\ ops < MaxOps
    /\ ops' = ops + 1
    /\ in_deriv' = BackwardInDeriv(in_deriv, mask_data, out_deriv)
    /\ mask_deriv' = BackwardMaskDeriv(mask_deriv, in_data, out_deriv)
    /\ lastOp' = "Backward"
    /\ runs' = Ran(runs, 1)
    /\ UNCHANGED <<drop_prob_, in_data, out_data, out_deriv, mask_data,
                   lastPhase, lastBranch, lastDraws,
                   trainMask>>
    /\ UNCHANGED <<solverVars, eltwiseVars>>

\* Layer::ClearDeriv: zeroes the derivatives of the layer's outputs.
ParentClearDeriv(deriv) == MatZero(deriv)

\* LayerDropout::ClearDeriv (layer_dropout.h:95-98).
ClearDeriv ==
    /\ ops < MaxOps
    /\ ops' = ops + 1
    /\ out_deriv' = ParentClearDeriv(out_deriv)
    /\ mask_deriv' = MatZero(mask_deriv)
    /\ lastOp' = "ClearDeriv"
    /\ runs' = IF out_deriv' = out_deriv THEN runs ELSE Touched(runs)
    /\ UNCHANGED <<drop_prob_, in_data, in_deriv, out_data, mask_data,
                   lastPhase, lastBranch, lastDraws,
                   trainMask>>
    /\ UNCHANGED <<solverVars, eltwiseVars>>

\* The layer that owns the input tensor clears its derivative.
InputClearDeriv ==
    /\ ops < MaxOps
    /\ ops' = ops + 1
    /\ in_deriv' = ParentClearDeriv(in_deriv)
    /\ lastOp' = "InputClearDeriv"
    /\ runs' = Cleared
    /\ UNCHANGED <<drop_prob_, in_data, out_data, out_deriv, mask_data,
                   mask_deriv, lastPhase, lastBranch, lastDraws,
                   trainMask>>
    /\ UNCHANGED <<solverVars, eltwiseVars>>

\* A consumer of the output adds its gradient into the output's deriv.
ConsumerBackward(g) ==
    /\ ops < MaxOps
    /\ ops' = ops + 1
    /\ out_deriv' = [i \in 1..Len(out_deriv) |-> out_deriv[i] + g[i]]
    /\ lastOp' = "ConsumerBackward"
    /\ runs' = Touched(runs)
    /\ UNCHANGED <<drop_prob_, in_data, in_deriv, out_data, mask_data,
                   mask_deriv, lastPhase, lastBranch, lastDraws,
                   trainMask>>
    /\ UNCHANGED <<solverVars, eltwiseVars>>

(***************************************************************************)
(* LayerEltwiseMult (layer_eltwise_mult.h), on the tensors X and Y.        *)
(***************************************************************************)
TensorNames == {"X", "Y"}
\* The data of the tensors X and Y of a graph with both layers.
GraphVectorsX == {<<2, 3>>}
GraphVectorsY == {<<5, 7>>, <<-1, 0, 4>>}
\* The drop probabilities of the dropout layer of that graph.
GraphProbs == {0, Half, One}
\* The draws of a Forward of that layer: odd elements kept, even ones dropped.
GraphDraws(n) == {[i \in 1..n |-> IF i % 2 = 1 THEN ThreeQuarters ELSE 0]}
\* The input lists a LayerEltwiseMult is constructed with.
MaxInputs == 3
InputLists == UNION {[1..k -> TensorNames] : k \in 0..MaxInputs}

\* No second tensor and no LayerEltwiseMult.
NoEltwise ==
    /\ y_data = << >>
    /\ y_deriv = << >>
    /\ e_in = << >>
    /\ e_outs = 0
    /\ e_out_data = << >>
    /\ e_out_deriv = << >>
    /\ e_state = "none"
    /\ e_phase = "none"
    /\ runs = Cleared

\* The tensor Y with the data y, and a LayerEltwiseMult yet to be constructed.
TensorY(y) ==
    /\ y_data = y
    /\ y_deriv = MatZero(y)
    /\ e_in = << >>
    /\ e_outs = 0
    /\ e_out_data = << >>
    /\ e_out_deriv = << >>
    /\ e_state = "none"
    /\ e_phase = "none"
    /\ runs = Cleared

\* The data and the deriv buffers of the tensors, by name.
Data == [t \in TensorNames |-> IF t = "X" THEN in_data ELSE y_data]
Deriv == [t \in TensorNames |-> IF t = "X" THEN in_deriv ELSE y_deriv]

\* Check(check, msg, ...): ends the process when check is false.
Check(check) == IF check THEN "ok" ELSE "terminated"

\* A constructor that accepts two inputs or more.
InputCountAtLeast2(ins) == Len(ins) >= 2

\* Parent::in_.size() == 2  (layer_eltwise_mult.h:62)
InputCountIs2(ins) == Len(ins) = 2

\* Parent::in_[0]->Size() == Parent::in_[1]->Size()  (layer_eltwise_mult.h:64)
InputSizesEqual(ins) == Len(Data[ins[1]]) = Len(Data[ins[2]])

\* LayerEltwiseMult::LayerEltwiseMult (layer_eltwise_mult.h:59-71): the two
\* checks in turn, then the one output, created zeroed with the size of in_[0].
EltwiseConstruct(ins) ==
    /\ e_state = "none"
    /\ e_in' = ins
    /\ e_phase' = "none"
    /\ IF Check(InputCountIs2(ins)) = "terminated"
       THEN /\ e_state' = "terminated"
            /\ UNCHANGED <<e_outs, e_out_data, e_out_deriv>>
       ELSE IF Check(InputSizesEqual(ins)) = "terminated"
       THEN /\ e_state' = "terminated"
            /\ UNCHANGED <<e_outs, e_out_data, e_out_deriv>>
       ELSE /\ e_state' = "ok"
            /\ e_outs' = 1
            /\ e_out_data' = MatZero(Data[ins[1]])
            /\ e_out_deriv' = MatZero(Data[ins[1]])
    /\ lastOp' = "EltwiseConstruct"
    /\ UNCHANGED <<y_data, y_deriv, runs>>
    /\ UNCHANGED <<drop_prob_, in_data, in_deriv, out_data, out_deriv,
                   mask_data, mask_deriv, lastPhase, lastBranch, lastDraws,
                   trainMask, ops>>
    /\ UNCHANGED solverVars

\* out_data[i] = in1_data[i] * in2_data[i]  (layer_eltwise_mult.h:86-88)
EltwiseProduct(in1, in2, n) == [i \in 1..n |-> in1[i] * in2[i]]

\* LayerEltwiseMult::Forward (layer_eltwise_mult.h:80-89); the state, and the
\* phase in it, is not read.
EltwiseForward(phase) ==
    /\ e_state = "ok"
    /\ ops < MaxOps
    /\ ops' = ops + 1
    /\ e_out_data' = EltwiseProduct(Data[e_in[1]], Data[e_in[2]], Len(e_out_data))
    /\ e_phase' = phase
    /\ lastOp' = "EltwiseForward"
    /\ UNCHANGED <<y_data, y_deriv, e_in, e_outs, e_out_deriv, e_state, runs>>
    /\ UNCHANGED <<drop_prob_, in_data, in_deriv, out_data, out_deriv,
                   mask_data, mask_deriv, lastPhase, lastBranch, lastDraws,
                   trainMask>>
    /\ UNCHANGED solverVars

\* An iteration that gives each input the product of its own data.
EltwiseBackwardElementOwn(d, i, ins, dat, dv) ==
    LET d1 == [d EXCEPT ![ins[1]][i] = @ + dat[ins[1]][i] * dv[i]]
    IN [d1 EXCEPT ![ins[2]][i] = @ + dat[ins[2]][i] * dv[i]]

\* An iteration whose second accumulation starts from the value the buffer
\* had before the first.
EltwiseBackwardElementLost(d, i, ins, dat, dv) ==
    LET d1 == [d EXCEPT ![ins[1]][i] = @ + dat[ins[2]][i] * dv[i]]
    IN [d1 EXCEPT ![ins[2]][i] = d[ins[2]][i] + dat[ins[1]][i] * dv[i]]

\* An iteration that assigns the gradients.
EltwiseBackwardElementOverwrite(d, i, ins, dat, dv) ==
    LET d1 == [d EXCEPT ![ins[1]][i] = dat[ins[2]][i] * dv[i]]
    IN [d1 EXCEPT ![ins[2]][i] = dat[ins[1]][i] * dv[i]]

\* One iteration of the loop of Backward on the deriv buffers d
\* (layer_eltwise_mult.h:108-110): the two statements in turn, the second
\* reading what the first has written when both inputs are one tensor.
EltwiseBackwardElement(d, i, ins, dat, dv) ==
    LET d1 == [d EXCEPT ![ins[1]][i] = @ + dat[ins[2]][i] * dv[i]]
    IN [d1 EXCEPT ![ins[2]][i] = @ + dat[ins[1]][i] * dv[i]]

\* for (uint32_t i = 0; i < Parent::out_[0]->Size(); ++i)
\* (layer_eltwise_mult.h:107), from element i to element n.
RECURSIVE EltwiseBackwardLoop(_, _, _, _, _, _)
EltwiseBackwardLoop(d, i, n, ins, dat, dv) ==
    IF i > n THEN d
    ELSE EltwiseBackwardLoop(EltwiseBackwardElement(d, i, ins, dat, dv),
                             i + 1, n, ins, dat, dv)

\* LayerEltwiseMult::Backward (layer_eltwise_mult.h:98-112).
EltwiseBackward ==
    /\ e_state = "ok"
    /\ ops < MaxOps
    /\ ops' = ops + 1
    /\ LET d == EltwiseBackwardLoop(Deriv, 1, Len(e_out_data), e_in, Data,
                                    e_out_deriv)
       IN /\ in_deriv' = d["X"]
          /\ y_deriv' = d["Y"]
    /\ runs' = Ran(runs, 2)
    /\ lastOp' = "EltwiseBackward"
    /\ UNCHANGED <<y_data, e_in, e_outs, e_out_data, e_out_deriv, e_state,
                   e_phase>>
    /\ UNCHANGED <<drop_prob_, in_data, out_data, out_deriv, mask_data,
                   mask_deriv, lastPhase, lastBranch, lastDraws, trainMask>>
    /\ UNCHANGED solverVars

\* A consumer of the output of the LayerEltwiseMult adds its gradient into
\* the output's deriv.
EltwiseConsumerBackward(g) ==
    /\ e_state = "ok"
    /\ ops < MaxOps
    /\ ops' = ops + 1
    /\ e_out_deriv' = [i \in 1..Len(e_out_deriv) |-> e_out_deriv[i] + g[i]]
    /\ runs' = Touched(runs)
    /\ lastOp' = "EltwiseConsumerBackward"
    /\ UNCHANGED <<y_data, y_deriv, e_in, e_outs, e_out_data, e_state, e_phase>>
    /\ UNCHANGED <<drop_prob_, in_data, in_deriv, out_data, out_deriv,
                   mask_data, mask_deriv, lastPhase, lastBranch, lastDraws,
                   trainMask>>
    /\ UNCHANGED solverVars

\* A constructed solver that is not training.
SolverAtRest ==
    /\ InitSolver
    /\ print_each_ = 1 /\ test_each_ = 1 /\ save_each_ = 1 /\ lr_scale_each_ = 1

InitDropout ==
    /\ SolverAtRest
    /\ \E p \in DropProbs, x \in InputVectors : ConstructDropout(p, x)
    /\ NoEltwise

NextDropout ==
    \/ \E phase \in Phases :
          \E draws \in {<< >>} \cup DrawSequences(Len(mask_data)) :
             Forward(phase, draws)
    \/ Backward
    \/ ClearDeriv
    \/ InputClearDeriv
    \/ \E g \in OutGradients(Len(out_deriv)) : ConsumerBackward(g)

DropoutSpec == InitDropout /\ [][NextDropout]_vars

\* A graph of the two layers: the tensor X is the input of the LayerDropout
\* and may be an input of the LayerEltwiseMult.
InitGraph ==
    /\ SolverAtRest
    /\ \E p \in GraphProbs, x \in GraphVectorsX : ConstructDropout(p, x)
    /\ \E y \in GraphVectorsY : TensorY(y)

\* The graph is built, then its layers run; nothing runs in an ended process.
NextGraph ==
    \/ \E ins \in InputLists : EltwiseConstruct(ins)
    \/ \E phase \in Phases : EltwiseForward(phase)
    \/ EltwiseBackward
    \/ \E g \in OutGradients(Len(e_out_deriv)) : EltwiseConsumerBackward(g)
    \/ /\ e_state = "ok"
       /\ \E phase \in Phases :
             \E draws \in {<< >>} \cup GraphDraws(Len(mask_data)) :
                Forward(phase, draws)
    \/ e_state = "ok" /\ Backward
    \/ e_state = "ok" /\ ClearDeriv
    \/ e_state = "ok" /\ InputClearDeriv
    \/ /\ e_state = "ok"
       /\ \E g \in OutGradients(Len(out_deriv)) : ConsumerBackward(g)

GraphSpec == InitGraph /\ [][NextGraph]_vars

NextSolver ==
    \/ \E n \in NumSteps, rate \in LearningRates :
          TrainInvalidModel(NullModel, n, rate)
    \/ \E m \in {NullModel, TheModel}, n \in NumSteps, rate \in LearningRates :
          TrainSetup(m, n, rate)
    \/ ModelTrain
    \/ Learn
    \/ PrintReport
    \/ TestReport
    \/ \E ok \in BOOLEAN : SaveModel(ok)
    \/ LrScale
    \/ TrainReturn

\* The solver runs; the layers are those of a graph that is not evaluated.
Init ==
    /\ InitSolver
    /\ ConstructDropout(0, <<0>>)
    /\ NoEltwise

Spec == Init /\ [][NextSolver]_vars

\* The loop is sequential code: whenever a statement can run, it does.
FairSpec == Spec /\ WF_vars(NextSolver)

(***************************************************************************)
(* Reading the events of the current Train call.                           *)
(***************************************************************************)
EventsAt(op, s) == {i \in 1..Len(events) : events[i].op = op /\ events[i].step = s}
Count(op, s) == Cardinality(EventsAt(op, s))
Total(op) == Cardinality({i \in 1..Len(events) : events[i].op = op})
IndexOf(op, s) == CHOOSE i \in 1..Len(events) : events[i].op = op /\ events[i].step = s
FailedSaves == {i \in 1..Len(events) : events[i].op = "Save" /\ ~events[i].ok}

\* A Train call on a model is running or has returned.
TrainingCall == calls > 0 /\ model # NullModel
\* The step indices of the current call.
Steps == 0..(num_step - 1)
\* The print, test, save statement of iteration s has been executed.
PastPrint(s) == s < step \/ (s = step /\ pc \in {"test", "save", "lr", "done"})
PastTest(s) == s < step \/ (s = step /\ pc \in {"save", "lr", "done"})
PastSave(s) == s < step \/ (s = step /\ pc \in {"lr", "done"})
\* Iteration s ran to its end; iteration s was left, at its end or by a return.
Completed(s) == s < step
Left(s) == s < step \/ (s = step /\ pc = "done")
\* The cadence rule of the specification, on 0-based step indices.
OnCadence(s, each) == (s + 1) % each = 0
IsFinal(s) == s = num_step - 1

RECURSIVE Pow(_, _)
Pow(b, k) == IF k = 0 THEN 1 ELSE b * Pow(b, k - 1)

\* C1: with a non-null model, print_each >= 1 and test_each >= 1, the print
\* report and the model's Test() each happen at step index s exactly when
\* (s+1) % cadence = 0 or s = num_steps-1, at most once per step; with
\* num_steps = 10 and print_each = 3 the prints are at 1-based steps 3, 6, 9, 10.
C1_PrintTestCadence ==
    (TrainingCall /\ print_each_ >= 1 /\ test_each_ >= 1) =>
        /\ \A s \in Steps :
              /\ Count("kInfoStep", s) =
                    IF PastPrint(s) /\ (OnCadence(s, print_each_) \/ IsFinal(s))
                    THEN 1 ELSE 0
              /\ Count("Test", s) =
                    IF PastTest(s) /\ (OnCadence(s, test_each_) \/ IsFinal(s))
                    THEN 1 ELSE 0
        /\ Total("kInfoStep") = Cardinality({s \in Steps : Count("kInfoStep", s) = 1})
        /\ Total("Test") = Cardinality({s \in Steps : Count("Test", s) = 1})
        /\ (pc = "done" /\ result /\ num_step = 10 /\ print_each_ = 3) =>
              {s + 1 : s \in {t \in Steps : Count("kInfoStep", t) = 1}} = {3, 6, 9, 10}

\* C1 witness: a run of 10 steps with print_each = 3 and a test cadence that
\* does not divide 10 has returned success after 4 prints.
C1_Witness ==
    /\ TrainingCall /\ pc = "done" /\ result
    /\ num_step = 10 /\ print_each_ = 3 /\ test_each_ = 3
    /\ Total("kInfoStep") = 4 /\ Total("Test") = 4

\* C2 as stated: with lr_scale_each >= 1 the decay fires at every step index s
\* of the run with (s+1) % lr_scale_each = 0, and at no other.
C2_DecayAtEveryCadenceStep ==
    (TrainingCall /\ lr_scale_each_ >= 1) =>
        \A s \in Steps : Left(s) =>
            (Count("Decay", s) = 1 <=> OnCadence(s, lr_scale_each_))

\* C2 amended: with lr_scale_each >= 1 the decay fires at step index s exactly
\* when (s+1) % lr_scale_each = 0 and the iteration is not ended by a failing
\* Save, never merely because s is the final step; after n completed
\* iterations the rate is the initial rate scaled floor(n / lr_scale_each) times.
C2_DecayCadence ==
    (TrainingCall /\ lr_scale_each_ >= 1) =>
        /\ \A s \in Steps :
              Count("Decay", s) =
                 IF Completed(s) /\ OnCadence(s, lr_scale_each_) THEN 1 ELSE 0
        /\ Total("Decay") = Cardinality({s \in Steps : Count("Decay", s) = 1})
        /\ Total("Decay") = step \div lr_scale_each_
        /\ learning_rate = events[1].lr * Pow(lr_scale_, step \div lr_scale_each_)

\* C2 witness: a completed run whose final step is off the decay cadence and
\* whose rate was scaled 3 times.
C2_Witness ==
    /\ TrainingCall /\ pc = "done" /\ result
    /\ lr_scale_each_ = 3 /\ num_step = 10
    /\ Total("Decay") = 3 /\ Count("Decay", 9) = 0
    /\ learning_rate = 3 * 8

(***************************************************************************)
(* Parsing a checkpoint file name back.                                    *)
(***************************************************************************)
DigitValue(c) == CASE c = "0" -> 0 [] c = "1" -> 1 [] c = "2" -> 2 [] c = "3" -> 3
                   [] c = "4" -> 4 [] c = "5" -> 5 [] c = "6" -> 6 [] c = "7" -> 7
                   [] c = "8" -> 8 [] c = "9" -> 9 [] OTHER -> -1

RECURSIVE DecimalValue(_)
DecimalValue(ds) ==
    IF Len(ds) = 1 THEN DigitValue(ds[1])
    ELSE 10 * DecimalValue(SubSeq(ds, 1, Len(ds) - 1)) + DigitValue(ds[Len(ds)])

\* file is <model name>_<k>.model with k written in decimal.
NamesStep(file, k) ==
    LET n == Len(file)
        m == Len(ModelName)
    IN /\ n >= m + 8
       /\ SubSeq(file, 1, m) = ModelName
       /\ file[m + 1] = "_"
       /\ SubSeq(file, n - 5, n) = <<".", "m", "o", "d", "e", "l">>
       /\ LET ds == SubSeq(file, m + 2, n - 6)
          IN /\ \A i \in 1..Len(ds) : DigitValue(ds[i]) >= 0
             /\ ds[1] # "0"
             /\ DecimalValue(ds) = k

\* C3: with save_each >= 1, Save is invoked at step index s exactly when
\* (s+1) % save_each = 0 or s = num_steps-1 (no earlier save having failed),
\* with the file name <model name>_<s+1>.model; num_steps = 10 with
\* save_each = 100 gives exactly one Save, for step number 10.
C3_SaveCadenceAndName ==
    (TrainingCall /\ save_each_ >= 1) =>
        /\ \A s \in Steps :
              Count("Save", s) =
                 IF PastSave(s) /\ (OnCadence(s, save_each_) \/ IsFinal(s))
                 THEN 1 ELSE 0
        /\ Total("Save") = Cardinality({s \in Steps : Count("Save", s) = 1})
        /\ \A i \in 1..Len(events) :
              events[i].op = "Save" => NamesStep(events[i].file, events[i].step + 1)
        /\ (pc = "done" /\ result /\ num_step = 10 /\ save_each_ = 100) =>
              /\ Total("Save") = 1
              /\ Count("Save", 9) = 1
              /\ events[IndexOf("Save", 9)].file =
                    <<"n", "e", "t", "_", "1", "0", ".", "m", "o", "d", "e", "l">>

\* C3 witness: the run of 10 steps with save_each = 100 has returned success
\* after its single Save.
C3_Witness ==
    /\ TrainingCall /\ pc = "done" /\ result
    /\ num_step = 10 /\ save_each_ = 100
    /\ Total("Save") = 1

\* C4: once the model's Save has returned failure, Train has returned failure:
\* the failing Save is the last call of the run (no Train(), Learn, Test() or
\* Save after it) and the learning rate is not decayed for that step.
C4_FailedSaveAborts ==
    TrainingCall =>
        \A i \in FailedSaves :
            /\ i = Len(events)
            /\ pc = "done"
            /\ ~result
            /\ Count("Decay", events[i].step) = 0
            /\ learning_rate = events[i].lr

\* C4 witness: a Save has failed, at a step that is on the decay cadence and
\* is not the last one.
C4_Witness ==
    /\ TrainingCall
    /\ \E i \in FailedSaves :
          /\ events[i].step = 2
          /\ lr_scale_each_ = 3
          /\ num_step = 10

\* C5: on every return of Train that happens after the snapshot setup, the
\* return caused by a failed save included, weight_ and weight_prev_ are empty.
C5_WeightsClearedOnEveryReturn ==
    (TrainingCall /\ pc = "done") => (weight_ = << >> /\ weight_prev_ = << >>)

C7_RunShape ==
    TrainingCall =>
        /\ events[1].op = "GetWeight"
        /\ (pc # "done") =>
              /\ weight_ = modelWeights
              /\ Len(weight_prev_) = Len(weight_)
              /\ \A i \in 1..Len(weight_) : weight_prev_[i] = weight_[i]
        /\ (pc = "done" /\ FailedSaves = {}) =>
              /\ result
              /\ Total("Train") = num_step
              /\ Total("Learn") = num_step
              /\ \A s \in Steps :
                    /\ Count("Train", s) = 1
                    /\ Count("Learn", s) = 1
                    /\ IndexOf("Train", s) < IndexOf("Learn", s)
                    /\ (s > 0) => IndexOf("Learn", s - 1) < IndexOf("Train", s)
              /\ weight_ = << >>
              /\ weight_prev_ = << >>
              /\ (num_step = 0) => Len(events) = 1

\* C7: for every num_steps >= 0, Train on a model whose saves succeed
\* terminates, invokes Train() and Learn exactly num_steps times each (Train()
\* then Learn in each step) and returns success; with num_steps = 0 it makes
\* no Train(), Learn, print, Test or Save call, sets up and clears the
\* snapshots, and returns success.
C7_TerminatesAfterNumSteps ==
    /\ []C7_RunShape
    /\ (pc \notin {"idle", "done"}) ~> (pc = "done")

\* C7 witness: Train with num_steps = 0 has returned success on a model with
\* weights, having made no call but GetWeight.
C7_Witness ==
    /\ TrainingCall /\ pc = "done" /\ result
    /\ num_step = 0 /\ modelWeights # << >>
    /\ Len(events) = 1 /\ weight_ = << >>

(***************************************************************************)
(* LayerDropout: the steps of the layer's operations.                      *)
(***************************************************************************)
BackwardStep == lastOp' = "Backward" /\ ops' # ops
ForwardStep == lastOp' = "Forward" /\ ops' # ops
Indices == 1..Len(in_data)

\* C8: Backward adds mask.data[i] * output.deriv[i] into input.deriv[i] and
\* input.data[i] * output.deriv[i] into mask.deriv[i] for every element i, on
\* top of what the buffers held, whatever Forward branch ran last; mask
\* [2,0,2,0], input [1,2,3,4], output.deriv [1,1,1,1] adds [2,0,2,0] and [1,2,3,4].
C8_BackwardAccumulates ==
    [][BackwardStep =>
          /\ \A i \in Indices :
                /\ in_deriv'[i] - in_deriv[i] = mask_data[i] * out_deriv[i]
                /\ mask_deriv'[i] - mask_deriv[i] = in_data[i] * out_deriv[i]
          /\ Len(in_deriv') = Len(in_data) /\ Len(mask_deriv') = Len(in_data)
          /\ (/\ mask_data = <<2, 0, 2, 0>>
              /\ in_data = <<1, 2, 3, 4>>
              /\ out_deriv = <<1, 1, 1, 1>>) =>
                /\ in_deriv' = [i \in 1..4 |-> in_deriv[i] + <<2, 0, 2, 0>>[i]]
                /\ mask_deriv' = [i \in 1..4 |-> mask_deriv[i] + <<1, 2, 3, 4>>[i]]
      ]_vars

\* C8 witness: the scenario's Backward has run twice after a random Forward,
\* the second time on top of the first one's gradients.
C8_Witness ==
    /\ lastOp = "Backward" /\ lastBranch = "random"
    /\ mask_data = <<2, 0, 2, 0>> /\ in_data = <<1, 2, 3, 4>>
    /\ out_deriv = <<1, 1, 1, 1>>
    /\ in_deriv = <<4, 0, 4, 0>> /\ mask_deriv = <<2, 4, 6, 8>>

\* C9: Forward outside the training phase makes the output data a copy of
\* the input data for every drop_prob, and leaves the mask data as it was.
C9_InferenceIsPassThrough ==
    [][(ForwardStep /\ lastPhase' # PHASE_TRAIN) =>
          /\ out_data' = in_data
          /\ in_data' = in_data
          /\ mask_data' = mask_data
      ]_vars

\* C9 witness: a non-training Forward has run on a layer with drop_prob 1/2
\* whose mask, from a training Forward, is neither 0 nor 1 everywhere.
C9_Witness ==
    /\ lastOp = "Forward" /\ lastPhase = "PHASE_TEST"
    /\ drop_prob_ = Half
    /\ mask_data = <<2, 0, 2, 0>>
    /\ out_data = <<1, 2, 3, 4>>

\* C10: Forward in the training phase with drop_prob below machine epsilon
\* (0 in particular) makes the output data identical to the input data and
\* every mask element 1, whatever the mask held before.
C10_NoDropCopiesAndSetsMask ==
    [][(ForwardStep /\ lastPhase' = PHASE_TRAIN /\ drop_prob_ < Epsilon) =>
          /\ out_data' = in_data
          /\ in_data' = in_data
          /\ Len(mask_data') = Len(in_data)
          /\ \A i \in Indices : mask_data'[i] = 1
      ]_vars

\* C10 witness: the first training Forward of a layer with drop_prob 0 has
\* run, on the zero mask of the constructor.
C10_Witness ==
    /\ lastOp = "Forward" /\ lastPhase = PHASE_TRAIN /\ lastBranch = "nodrop"
    /\ ops = 1 /\ drop_prob_ = 0
    /\ out_data = in_data /\ in_data = <<1, 2, 3, 4>>
    /\ mask_data = <<1, 1, 1, 1>>

\* C11: Forward in the training phase with drop_prob above 1 - epsilon (1 in
\* particular) makes the output data and the mask data zero everywhere,
\* whatever they held before.
C11_DropAllZeroesOutputAndMask ==
    [][(ForwardStep /\ lastPhase' = PHASE_TRAIN /\ drop_prob_ > One - Epsilon) =>
          /\ Len(out_data') = Len(in_data)
          /\ Len(mask_data') = Len(in_data)
          /\ \A i \in Indices : out_data'[i] = 0 /\ mask_data'[i] = 0
      ]_vars

\* C11 witness: a training Forward with drop_prob 1 has zeroed the output;
\* it was not the layer's first operation and the input is not zero.
C11_Witness ==
    /\ lastOp = "Forward" /\ lastPhase = PHASE_TRAIN /\ lastBranch = "dropall"
    /\ drop_prob_ = One /\ ops >= 2
    /\ in_data = <<1, 2, 3, 4>>
    /\ out_data = <<0, 0, 0, 0>> /\ mask_data = <<0, 0, 0, 0>>

\* The draw of element i in the step's Forward; when Forward drew nothing, a
\* draw below every p of (0, 1) and one above every such p stand for all.
DrawsOfStep(i) == IF lastDraws' # << >> THEN {lastDraws'[i]} ELSE {0, One - 1}
\* mask value m is what the rule gives for draw d: 1/(1-p) if d >= p, else 0.
MaskFollowsDraw(m, d, p) == IF d >= p THEN m * (One - p) = One ELSE m = 0

\* C12 as stated: for every drop_prob strictly between 0 and 1, a training
\* Forward sets mask[i] = 1/(1-p) when the draw of i is >= p, 0 when it is
\* < p, and output[i] = mask[i] * input[i].
C12_RuleForEveryProbabilityInside01 ==
    [][(ForwardStep /\ lastPhase' = PHASE_TRAIN
            /\ 0 < drop_prob_ /\ drop_prob_ < One) =>
          \A i \in Indices :
             /\ \E d \in DrawsOfStep(i) : MaskFollowsDraw(mask_data'[i], d, drop_prob_)
             /\ out_data'[i] = mask_data'[i] * in_data[i]
      ]_vars

\* C12 amended: for every drop_prob from epsilon to 1 - epsilon and every
\* realization of the draws, a training Forward sets mask[i] = 1/(1-p) when
\* the draw of i is >= p, 0 when it is < p, and output[i] = mask[i] * input[i];
\* p = 1/2 on [1,2,3,4] keeping elements 0 and 2 gives mask [2,0,2,0] and
\* output [2,0,6,0].
C12_RandomBranchRule ==
    [][(ForwardStep /\ lastPhase' = PHASE_TRAIN
            /\ Epsilon <= drop_prob_ /\ drop_prob_ <= One - Epsilon) =>
          /\ Len(lastDraws') = Len(in_data)
          /\ Len(mask_data') = Len(in_data)
          /\ Len(out_data') = Len(in_data)
          /\ \A i \in Indices :
                /\ MaskFollowsDraw(mask_data'[i], lastDraws'[i], drop_prob_)
                /\ out_data'[i] = mask_data'[i] * in_data[i]
          /\ (/\ drop_prob_ = Half
              /\ in_data = <<1, 2, 3, 4>>
              /\ \A i \in Indices : (lastDraws'[i] >= Half) <=> (i \in {1, 3})) =>
                /\ mask_data' = <<2, 0, 2, 0>>
                /\ out_data' = <<2, 0, 6, 0>>
      ]_vars

\* C12 witness: the scenario, with a kept element whose draw equals drop_prob.
C12_Witness ==
    /\ lastOp = "Forward" /\ lastPhase = PHASE_TRAIN /\ lastBranch = "random"
    /\ drop_prob_ = Half /\ in_data = <<1, 2, 3, 4>>
    /\ lastDraws = <<Half, 0, Half, 0>>
    /\ mask_data = <<2, 0, 2, 0>> /\ out_data = <<2, 0, 6, 0>>

\* C19: a Backward that follows a non-training Forward adds
\* mask[i] * output.deriv[i] with the mask of the most recent training-phase
\* Forward, not with the identity, although the output then equals the
\* input; on a layer that never ran a training-phase Forward (mask 0 from the
\* constructor) it leaves input.deriv unchanged.
C19_BackwardUsesStaleMask ==
    [][(BackwardStep /\ lastBranch = "notrain") =>
          /\ out_data = in_data
          /\ IF trainMask = << >>
             THEN /\ \A i \in Indices : mask_data[i] = 0
                  /\ in_deriv' = in_deriv
             ELSE \A i \in Indices :
                     in_deriv'[i] - in_deriv[i] = trainMask[i] * out_deriv[i]
      ]_vars

\* C19 witness: after a training Forward that dropped elements 1 and 3 and a
\* non-training Forward, Backward has added [2,0,2,0] for a gradient of ones,
\* where the identity would have added [1,1,1,1].
C19_Witness ==
    /\ lastOp = "Backward" /\ lastBranch = "notrain"
    /\ trainMask = <<2, 0, 2, 0>>
    /\ out_data = <<1, 2, 3, 4>> /\ in_data = <<1, 2, 3, 4>>
    /\ out_deriv = <<1, 1, 1, 1>>
    /\ in_deriv = <<2, 0, 2, 0>>

(***************************************************************************)
(* The order of the events of a Train call.                                *)
(***************************************************************************)
Max(a, b) == IF a >= b THEN a ELSE b

Rank(op) == CASE op = "Train" -> 1 [] op = "Learn" -> 2 [] op = "kInfoStep" -> 3
              [] op = "Test" -> 4 [] op = "Save" -> 5 [] op = "Decay" -> 6
              [] OTHER -> 0
\* Event e comes earlier than event f in the order step by step, and Train(),
\* Learn, print, Test(), Save, decay within a step.
Before(e, f) == \/ e.step < f.step
                \/ (e.step = f.step /\ Rank(e.op) < Rank(f.op))
\* The print, test or save event of cadence each is due at step s.
Due(s, each) == each = 0 \/ OnCadence(s, each) \/ IsFinal(s)

\* C17: in every step the events occur in the order Train(), Learn, print,
\* Test(), Save, decay; the rate passed to Learn and printed at step k is the
\* initial rate scaled floor(k / lr_scale_each) times (k times when
\* lr_scale_each is 0, where the quotient is not defined); when the Save of a step fails, the print report and the Test() due
\* at that step have already happened.
C17_OrderWithinStep ==
    TrainingCall =>
        /\ \A i \in 2..(Len(events) - 1) :
              /\ Rank(events[i].op) > 0
              /\ Rank(events[i + 1].op) > 0
              /\ Before(events[i], events[i + 1])
        /\ \A i \in 2..Len(events) :
              events[i].op \in {"Learn", "kInfoStep"} =>
                  events[i].lr =
                     events[1].lr *
                        Pow(lr_scale_,
                            events[i].step \div Max(lr_scale_each_, 1))
        /\ \A f \in FailedSaves :
              LET s == events[f].step
              IN /\ Due(s, print_each_) =>
                       (Count("kInfoStep", s) = 1 /\ IndexOf("kInfoStep", s) < f)
                 /\ Due(s, test_each_) =>
                       (Count("Test", s) = 1 /\ IndexOf("Test", s) < f)

\* C17 witness: a Save has failed at step index 5, on the print and test
\* cadence, after the rate was scaled once at step index 2.
C17_Witness ==
    /\ TrainingCall /\ pc = "done"
    /\ print_each_ = 3 /\ test_each_ = 3 /\ lr_scale_each_ = 3 /\ save_each_ = 3
    /\ \E f \in FailedSaves :
          /\ events[f].step = 5
          /\ events[f].lr = 3 * 2
          /\ Count("kInfoStep", 5) = 1 /\ Count("Test", 5) = 1
          /\ events[IndexOf("Learn", 5)].lr = 3 * 2

\* C18: a cadence of 0 does not switch an event off: with print_each,
\* test_each, save_each or lr_scale_each equal to 0 the event fires on every
\* step that reaches it, exactly as with cadence 1; and for every cadence each
\* counter is below max(cadence, 1) at the start of every loop iteration.
C18_ZeroCadenceFiresEveryStep ==
    TrainingCall =>
        /\ \A s \in Steps :
              /\ (print_each_ \in {0, 1}) =>
                    Count("kInfoStep", s) = (IF PastPrint(s) THEN 1 ELSE 0)
              /\ (test_each_ \in {0, 1}) =>
                    Count("Test", s) = (IF PastTest(s) THEN 1 ELSE 0)
              /\ (save_each_ \in {0, 1}) =>
                    Count("Save", s) = (IF PastSave(s) THEN 1 ELSE 0)
              /\ (lr_scale_each_ \in {0, 1}) =>
                    Count("Decay", s) = (IF Completed(s) THEN 1 ELSE 0)
        /\ (pc = "loop") =>
              /\ print < Max(print_each_, 1)
              /\ test < Max(test_each_, 1)
              /\ save < Max(save_each_, 1)
              /\ lr < Max(lr_scale_each_, 1)

\* C18 witness: a run of 10 steps with all four cadences 0 has returned
\* success after 10 prints, tests, saves and decays.
C18_Witness ==
    /\ TrainingCall /\ pc = "done" /\ result /\ num_step = 10
    /\ print_each_ = 0 /\ test_each_ = 0 /\ save_each_ = 0 /\ lr_scale_each_ = 0
    /\ Total("kInfoStep") = 10 /\ Total("Test") = 10
    /\ Total("Save") = 10 /\ Total("Decay") = 10

(***************************************************************************)
(* LayerEltwiseMult: the steps of the layer's operations.                  *)
(***************************************************************************)
EltwiseForwardStep == lastOp' = "EltwiseForward" /\ ops' # ops
EltwiseBackwardStep == lastOp' = "EltwiseBackward" /\ ops' # ops
\* What one Backward owes to element i of the deriv of tensor t: for each
\* input position that t takes, the other input's data times the output's
\* gradient.
Contribution(t, i) ==
    (IF e_in[1] = t THEN Data[e_in[2]][i] * e_out_deriv[i] ELSE 0)
    + (IF e_in[2] = t THEN Data[e_in[1]][i] * e_out_deriv[i] ELSE 0)

\* C13: Forward of LayerEltwiseMult sets output[i] = a[i] * b[i] for every i
\* in every phase; Backward adds b[i] * out.deriv[i] into a.deriv[i] and
\* a[i] * out.deriv[i] into b.deriv[i], so that swapping the inputs swaps the
\* two contributions; a = [2,3], b = [5,7] gives the output [10,21] and, with
\* out.deriv = [1,1], adds [5,7] to a.deriv and [2,3] to b.deriv.
C13_EltwiseMultForwardBackward ==
    [][/\ EltwiseForwardStep =>
             /\ Len(e_out_data') = Len(Data[e_in[1]])
             /\ \A i \in 1..Len(Data[e_in[1]]) :
                   e_out_data'[i] = Data[e_in[1]][i] * Data[e_in[2]][i]
             /\ ({Data[e_in[1]], Data[e_in[2]]} = {<<2, 3>>, <<5, 7>>}) =>
                   e_out_data' = <<10, 21>>
       /\ EltwiseBackwardStep =>
             /\ \A t \in TensorNames :
                   /\ Len(Deriv'[t]) = Len(Data[t])
                   /\ \A i \in 1..Len(Data[t]) :
                         Deriv'[t][i] - Deriv[t][i] = Contribution(t, i)
             /\ (e_in[1] # e_in[2]) =>
                   \A i \in 1..Len(e_out_deriv) :
                      /\ in_deriv'[i] - in_deriv[i] = y_data[i] * e_out_deriv[i]
                      /\ y_deriv'[i] - y_deriv[i] = in_data[i] * e_out_deriv[i]
             /\ (/\ e_in[1] # e_in[2]
                 /\ in_data = <<2, 3>> /\ y_data = <<5, 7>>
                 /\ e_out_deriv = <<1, 1>>) =>
                   /\ in_deriv' = <<in_deriv[1] + 5, in_deriv[2] + 7>>
                   /\ y_deriv' = <<y_deriv[1] + 2, y_deriv[2] + 3>>
      ]_vars

\* C13 witness: the scenario with the inputs swapped (b first), after a
\* Forward outside the training phase and one Backward.
C13_Witness ==
    /\ lastOp = "EltwiseBackward" /\ e_in = <<"Y", "X">>
    /\ e_phase = "PHASE_TEST"
    /\ in_data = <<2, 3>> /\ y_data = <<5, 7>>
    /\ e_out_data = <<10, 21>> /\ e_out_deriv = <<1, 1>>
    /\ in_deriv = <<5, 7>> /\ y_deriv = <<2, 3>>

\* The inputs the constructor was given are not two tensors of one size.
BadInputs ==
    \/ Len(e_in) # 2
    \/ Len(Data[e_in[1]]) # Len(Data[e_in[2]])

\* C14: the constructor of LayerEltwiseMult ends the process in a check, with
\* no output tensor created, when it is not given exactly 2 inputs or the two
\* inputs have unequal sizes; given 2 inputs of equal size it returns and has
\* created exactly one output, of the inputs' size.
C14_ConstructorChecks ==
    /\ (e_state = "terminated") =>
          /\ BadInputs
          /\ e_outs = 0 /\ e_out_data = << >> /\ e_out_deriv = << >>
    /\ (e_state = "ok") =>
          /\ ~BadInputs
          /\ e_outs = 1
          /\ Len(e_out_data) = Len(Data[e_in[1]])
          /\ Len(e_out_data) = Len(Data[e_in[2]])
          /\ Len(e_out_deriv) = Len(e_out_data)
    /\ (e_state = "none") => (e_outs = 0 /\ e_in = << >>)

\* C14 witness: the constructor was given the two tensors of 2 and of 3
\* elements and has ended the process.
C14_Witness ==
    /\ e_state = "terminated" /\ lastOp = "EltwiseConstruct"
    /\ e_in = <<"X", "Y">>
    /\ Len(in_data) = 2 /\ Len(y_data) = 3
    /\ e_outs = 0

\* C15: Backward adds to the gradient that is there: once the deriv of X, an
\* input of the LayerDropout and of the LayerEltwiseMult, was cleared and the
\* Backward of the one has run k times and that of the other l times, in any
\* order, the deriv is k times the contribution of the first plus l times
\* the contribution of the second (the sum of both when each ran once).
C15_ContributionsAddUp ==
    (runs # Stale) =>
        \A i \in Indices :
            in_deriv[i] =
               runs[1] * (mask_data[i] * out_deriv[i])
               + runs[2] * (IF e_state = "ok" THEN Contribution("X", i) ELSE 0)

\* C15 witness: after one Backward of each consumer, the LayerDropout's
\* last, X.deriv holds mask * out.deriv = [2,0] plus y * out.deriv = [5,7].
C15_Witness ==
    /\ runs = <<1, 1>> /\ lastOp = "Backward"
    /\ e_in = <<"X", "Y">> /\ y_data = <<5, 7>>
    /\ mask_data = <<2, 0>> /\ out_deriv = <<1, 1>> /\ e_out_deriv = <<1, 1>>
    /\ in_deriv = <<7, 7>>

\* C16: a Forward of either layer, in any phase and dropout branch, changes
\* no deriv buffer and no input data; it writes the output data of its own
\* layer only and, in a LayerDropout in the training phase, the mask data.
C16_ForwardFrame ==
    [][/\ (ForwardStep \/ EltwiseForwardStep) =>
             /\ UNCHANGED <<in_deriv, out_deriv, mask_deriv, y_deriv,
                            e_out_deriv>>
             /\ UNCHANGED <<in_data, y_data>>
       /\ ForwardStep =>
             /\ UNCHANGED e_out_data
             /\ (lastPhase' # PHASE_TRAIN) => UNCHANGED mask_data
       /\ EltwiseForwardStep => UNCHANGED <<out_data, mask_data>>
      ]_vars

\* C16 witness: a training Forward of the LayerDropout has run over gradients
\* left by a Backward, after a Forward of the LayerEltwiseMult.
C16_Witness ==
    /\ lastOp = "Forward" /\ lastPhase = PHASE_TRAIN /\ lastBranch = "random"
    /\ out_data = <<4, 0>> /\ mask_data = <<2, 0>>
    /\ in_deriv = <<2, 0>> /\ mask_deriv = <<2, 3>> /\ out_deriv = <<1, 1>>
    /\ e_out_data = <<10, 21>>

\* C20: when both inputs of the LayerEltwiseMult are one tensor x, a Backward
\* adds exactly 2 * x.data[i] * out.deriv[i] into x.deriv[i] for every i, and
\* nothing to the other tensor.
C20_SquaringBackward ==
    [][(EltwiseBackwardStep /\ e_in[1] = e_in[2]) =>
          /\ \A i \in 1..Len(Data[e_in[1]]) :
                Deriv'[e_in[1]][i] - Deriv[e_in[1]][i] =
                   2 * Data[e_in[1]][i] * e_out_deriv[i]
          /\ \A t \in TensorNames \ {e_in[1]} : Deriv'[t] = Deriv[t]
      ]_vars

\* C20 witness: x = [2,3] squared, out.deriv = [1,1]: two Backward calls have
\* added [4,6] each.
C20_Witness ==
    /\ lastOp = "EltwiseBackward" /\ e_in = <<"X", "X">>
    /\ in_data = <<2, 3>> /\ e_out_deriv = <<1, 1>>
    /\ runs = <<0, 2>>
    /\ in_deriv = <<8, 12>>

====
